---- MODULE Spec2Model ----
(***************************************************************************)
(* Deploy-queue bot: the per-channel queue kept in a Redis sorted set      *)
(* (src/app.ts).  One QueueKey (team, channel) is modelled; every          *)
(* `await redis.X(...)` is one atomic step of the store, taken when the    *)
(* command is issued (one process, one connection: commands are served in  *)
(* the order they are issued), and the handler resumes in a later step.    *)
(***************************************************************************)
EXTENDS Integers, Sequences, FiniteSets, Bags, TLC

VARIABLES
    now,                  \* Date.now(), in milliseconds
    rawQueueMaxAgeHours,  \* process.env.QUEUE_MAX_AGE_HOURS
    zset,                 \* the sorted set stored at keyFor(teamId, channelId)
    h,                    \* the handlers in flight: position and locals
    calls,                \* history: operations invoked so far
    ticks,                \* history: clock advances so far
    nextSeq,              \* history: serial number of the next admission
    expired,              \* history: admissions removed by a prune pass
    claimed,              \* history: bag of the removals reported by leaveQueue and popNext
    last,                 \* history: the operation that returned last, and what it returned
    track,                \* whether the history variables are recorded
    rawQueueRepostThreshold, \* process.env.QUEUE_REPOST_THRESHOLD
    lastMessage,          \* the string stored at lastMessageKeyFor(teamId, channelId)
    chan,                 \* the channel: its messages, in the order of their ts
    req,                  \* the Bolt listeners in flight: position and locals
    faults,               \* history: failures of the chat platform and of the store so far
    notified,             \* history: bag of the members notifyNowFirst was called for
    promoted,             \* history: bag of the members that replaced another at the head
    done                  \* history: the listener that ended last, and how it ended

\* The state of the listeners of the slash command and of the buttons.
reqVars == <<rawQueueRepostThreshold, lastMessage, chan, req, faults, notified, promoted, done>>

vars == <<now, rawQueueMaxAgeHours, zset, h, calls, ticks, nextSeq, expired, claimed, last, track,
          reqVars>>

(* ------------------------------ bounds -------------------------------- *)
NumMembers == 2
NumHandlers == 2
MaxCalls == 3
MaxTicks == 2

\* User ids "U1", "U2", ...: the number is the id's lexicographic rank.
Members == 1 .. NumMembers
Handlers == 1 .. NumHandlers

\* null / undefined
Null == 0

(* --------------------------- configuration ---------------------------- *)
QUEUE_MAX_AGE_HOURS_DEFAULT == 12
MsPerHour == 60 * 60 * 1000

\* A value of the environment variable: unset, or a string that Number()
\* turns into a finite number or into NaN.
EnvUnset == [defined |-> FALSE, finite |-> FALSE, num |-> 0]
EnvNaN == [defined |-> TRUE, finite |-> FALSE, num |-> 0]
EnvNum(n) == [defined |-> TRUE, finite |-> TRUE, num |-> n]
RawValues == {EnvUnset, EnvNaN, EnvNum(-1), EnvNum(0), EnvNum(1)}

\* The parse without its sign test: any non-zero number sets the age.
ParseMaxAgeMsNoSign(raw) ==
    IF raw.defined /\ raw.finite
    THEN (IF raw.num # 0 THEN raw.num * MsPerHour ELSE Null)
    ELSE QUEUE_MAX_AGE_HOURS_DEFAULT * MsPerHour

\* let QUEUE_MAX_AGE_MS = default; if (isFinite(parsed)) parsed > 0 ? ... : null
ParseMaxAgeMs(raw) ==
    IF raw.defined /\ raw.finite
    THEN (IF raw.num > 0 THEN raw.num * MsPerHour ELSE Null)
    ELSE QUEUE_MAX_AGE_HOURS_DEFAULT * MsPerHour

QUEUE_MAX_AGE_MS == ParseMaxAgeMs(rawQueueMaxAgeHours)

\* The clock starts late enough that Date.now() - QUEUE_MAX_AGE_MS > 0.
StartTime == (QUEUE_MAX_AGE_HOURS_DEFAULT + 1) * MsPerHour

(* ------------------------- the sorted set ------------------------------ *)
\* An element: member, score, and (history) the serial of its admission.
Entry(m, s, q) == [member |-> m, score |-> s, seq |-> q]

\* Redis orders a sorted set by score, then by member, lexicographically.
Less(a, b) ==
    \/ a.score < b.score
    \/ a.score = b.score /\ a.member < b.member
    \/ a.score = b.score /\ a.member = b.member /\ a.seq < b.seq

RECURSIVE SortEntries(_)
SortEntries(zs) ==
    IF zs = {} THEN <<>>
    ELSE LET e == CHOOSE x \in zs : \A y \in zs : y = x \/ Less(x, y)
         IN  <<e>> \o SortEntries(zs \ {e})

Min(a, b) == IF a < b THEN a ELSE b

\* ZRANGE key start stop, start >= 0; a negative stop counts from the end.
ZRange(zs, start, stop) ==
    LET s == SortEntries(zs)
        n == Len(s)
        hi == IF stop < 0 THEN n + stop + 1 ELSE Min(stop + 1, n)
    IN  [k \in 1 .. (IF hi > start THEN hi - start ELSE 0) |-> s[start + k].member]

HasMember(zs, m) == \E e \in zs : e.member = m

\* The member appended without the NX test, as RPUSH onto a list would.
ZAddDup(zs, score, m, q) ==
    [zs |-> zs \cup {Entry(m, score, q)}, n |-> IF HasMember(zs, m) THEN 0 ELSE 1]

\* ZADD without NX: an element already present gets the new score.
ZAddUpdate(zs, score, m, q) ==
    IF HasMember(zs, m)
    THEN [zs |-> {IF e.member = m THEN Entry(m, score, e.seq) ELSE e : e \in zs}, n |-> 0]
    ELSE [zs |-> zs \cup {Entry(m, score, q)}, n |-> 1]

\* ZADD key NX score member: the new set and the number of elements added.
ZAddNX(zs, score, m, q) ==
    IF HasMember(zs, m)
    THEN [zs |-> zs, n |-> 0]
    ELSE [zs |-> zs \cup {Entry(m, score, q)}, n |-> 1]

\* ZREM whose answer is taken for 1 whether or not the member was there.
ZRemAlwaysOne(zs, m) ==
    [zs |-> {e \in zs : e.member # m}, n |-> 1]

\* ZREM key member: the new set and the number of elements removed.
ZRem(zs, m) ==
    IF HasMember(zs, m)
    THEN [zs |-> {e \in zs : e.member # m}, n |-> 1]
    ELSE [zs |-> zs, n |-> 0]

\* ZREMRANGEBYSCORE with an exclusive upper end, "(max".
ZRemRangeExclusive(zs, min, max) ==
    {e \in zs : ~(min <= e.score /\ e.score < max)}

\* ZREMRANGEBYSCORE key min max (both ends inclusive).
ZRemRangeByScore(zs, min, max) ==
    {e \in zs : ~(min <= e.score /\ e.score <= max)}

pruneStaleQueueEntries(zs, t) ==
    IF QUEUE_MAX_AGE_MS = Null THEN zs
    ELSE LET cutoff == t - QUEUE_MAX_AGE_MS
         IN  IF cutoff <= 0 THEN zs ELSE ZRemRangeByScore(zs, 0, cutoff)

(* ------------------------------ handlers ------------------------------- *)
\* What an operation returned: ok (joinQueue's / leaveQueue's boolean), val
\* (popNext's / firstUser's member or null), list (listQueue's array); seq is
\* history: the admission the operation added or removed, 0 when none.
Returned(op, u, ok, val, list, q) ==
    [op |-> op, user |-> u, ok |-> ok, val |-> val, list |-> list, seq |-> q]
NoReturn == Returned("none", Null, FALSE, Null, <<>>, 0)

\* A handler: the operation it runs, its position, its locals, and (history)
\* the cutoff the prune pass of a reading operation used, 0 when it had none.
Idle == [op |-> "none", pc |-> "idle", user |-> Null, first |-> Null, cutoff |-> 0]

SeqOf(zs, m) == IF HasMember(zs, m) THEN (CHOOSE e \in zs : e.member = m).seq ELSE 0

Return(i, ok, val, list, q) ==
    /\ h' = [h EXCEPT ![i] = Idle]
    /\ last' = Returned(h[i].op, h[i].user, ok, val, list, q)

\* A removal (or an empty pop) an operation reports to its caller.
Claim(op, m, q) ==
    claimed' = IF track THEN claimed (+) SetToBag({[op |-> op, member |-> m, seq |-> q]})
               ELSE claimed

\* Handler slots are interchangeable: an invocation takes the lowest idle one.
Free(i) == h[i].pc = "idle" /\ \A j \in Handlers : j < i => h[j].pc # "idle"

PruneCutoff(t) ==
    IF QUEUE_MAX_AGE_MS = Null \/ t - QUEUE_MAX_AGE_MS <= 0 THEN 0 ELSE t - QUEUE_MAX_AGE_MS

\* Invocation of an operation: its synchronous part runs up to the first
\* await, which is the prune pass of pruneStaleQueueEntries.
Invoke(i, op, u, pc) ==
    /\ Free(i)
    /\ track => calls < MaxCalls
    /\ calls' = IF track THEN calls + 1 ELSE calls
    /\ zset' = pruneStaleQueueEntries(zset, now)
    /\ expired' = IF track THEN expired \cup {e.seq : e \in zset \ zset'} ELSE expired
    /\ h' = [h EXCEPT ![i] = [op |-> op, pc |-> pc, user |-> u, first |-> Null,
                              cutoff |-> IF op \in {"list", "pop", "first"}
                                         THEN PruneCutoff(now) ELSE 0]]

Tick(d) ==
    /\ ticks < MaxTicks
    /\ ticks' = ticks + 1
    /\ now' = now + d
    /\ UNCHANGED <<rawQueueMaxAgeHours, zset, h, calls, nextSeq, expired, claimed, last, track, reqVars>>

\* joinQueue
JoinCall(i, u) ==
    /\ Invoke(i, "join", u, "zadd")
    /\ UNCHANGED <<now, rawQueueMaxAgeHours, ticks, nextSeq, claimed, last, track, reqVars>>

JoinZAdd(i) ==
    /\ h[i].pc = "zadd"
    /\ LET r == ZAddNX(zset, now, h[i].user, IF track THEN nextSeq ELSE 0)
           isNew == r.zs # zset
       IN  /\ zset' = r.zs
           /\ nextSeq' = IF track /\ isNew THEN nextSeq + 1 ELSE nextSeq
           /\ Return(i, r.n = 1, Null, <<>>, IF track /\ isNew THEN nextSeq ELSE 0)
    /\ UNCHANGED <<now, rawQueueMaxAgeHours, calls, ticks, expired, claimed, track, reqVars>>

\* leaveQueue
LeaveCall(i, u) ==
    /\ Invoke(i, "leave", u, "zrem")
    /\ UNCHANGED <<now, rawQueueMaxAgeHours, ticks, nextSeq, claimed, last, track, reqVars>>

LeaveZRem(i) ==
    /\ h[i].pc = "zrem"
    /\ LET r == ZRem(zset, h[i].user)
           q == IF r.zs # zset THEN SeqOf(zset, h[i].user) ELSE 0
       IN  /\ zset' = r.zs
           /\ Return(i, r.n = 1, Null, <<>>, q)
           /\ IF r.n = 1 THEN Claim("leave", h[i].user, q) ELSE UNCHANGED claimed
    /\ UNCHANGED <<now, rawQueueMaxAgeHours, calls, ticks, nextSeq, expired, track, reqVars>>

\* listQueue
ListCall(i) ==
    /\ Invoke(i, "list", Null, "zrange")
    /\ UNCHANGED <<now, rawQueueMaxAgeHours, ticks, nextSeq, claimed, last, track, reqVars>>

ListZRange(i) ==
    /\ h[i].pc = "zrange"
    /\ Return(i, TRUE, Null, ZRange(zset, 0, -1), 0)
    /\ UNCHANGED <<now, rawQueueMaxAgeHours, zset, calls, ticks, nextSeq, expired, claimed, track, reqVars>>

\* popNext
PopCall(i) ==
    /\ Invoke(i, "pop", Null, "head")
    /\ UNCHANGED <<now, rawQueueMaxAgeHours, ticks, nextSeq, claimed, last, track, reqVars>>

\* const first = (await redis.zrange(key, 0, 0))[0]; if (!first) return null;
PopHead(i) ==
    /\ h[i].pc = "head"
    /\ LET r == ZRange(zset, 0, 0)
           first == IF Len(r) > 0 THEN r[1] ELSE Null
       IN  IF first = Null
           THEN /\ Return(i, FALSE, Null, <<>>, 0)
                /\ Claim("pop", Null, 0)
           ELSE /\ h' = [h EXCEPT ![i].pc = "popzrem", ![i].first = first]
                /\ UNCHANGED <<claimed, last>>
    /\ UNCHANGED <<now, rawQueueMaxAgeHours, zset, calls, ticks, nextSeq, expired, track, reqVars>>

\* popNext returning `first` without looking at ZREM's answer.
PopZRemUnchecked(i) ==
    /\ h[i].pc = "popzrem"
    /\ LET r == ZRem(zset, h[i].first)
           q == IF r.zs # zset THEN SeqOf(zset, h[i].first) ELSE 0
       IN  /\ zset' = r.zs
           /\ Return(i, TRUE, h[i].first, <<>>, q)
           /\ Claim("pop", h[i].first, q)
    /\ UNCHANGED <<now, rawQueueMaxAgeHours, calls, ticks, nextSeq, expired, track, reqVars>>

\* const removed = await redis.zrem(key, first); if (removed === 1) return first;
PopZRem(i) ==
    /\ h[i].pc = "popzrem"
    /\ LET r == ZRem(zset, h[i].first)
           q == IF r.zs # zset THEN SeqOf(zset, h[i].first) ELSE 0
       IN  /\ zset' = r.zs
           /\ IF r.n = 1
              THEN /\ Return(i, TRUE, h[i].first, <<>>, q)
                   /\ Claim("pop", h[i].first, q)
              ELSE /\ h' = [h EXCEPT ![i].pc = "head", ![i].first = Null]
                   /\ UNCHANGED <<claimed, last>>
    /\ UNCHANGED <<now, rawQueueMaxAgeHours, calls, ticks, nextSeq, expired, track, reqVars>>

\* firstUser
FirstCall(i) ==
    /\ Invoke(i, "first", Null, "firstzrange")
    /\ UNCHANGED <<now, rawQueueMaxAgeHours, ticks, nextSeq, claimed, last, track, reqVars>>

\* const users = await redis.zrange(key, 0, 0); return users[0] ?? null;
FirstZRange(i) ==
    /\ h[i].pc = "firstzrange"
    /\ LET users == ZRange(zset, 0, 0)
       IN  Return(i, Len(users) > 0, IF Len(users) > 0 THEN users[1] ELSE Null, <<>>, 0)
    /\ UNCHANGED <<now, rawQueueMaxAgeHours, zset, calls, ticks, nextSeq, expired, claimed, track, reqVars>>

\* A step of handler i after its invocation.
Step(i) ==
    \/ JoinZAdd(i)
    \/ LeaveZRem(i)
    \/ ListZRange(i)
    \/ PopHead(i)
    \/ PopZRem(i)
    \/ FirstZRange(i)

\* No handler is in flight.
Quiet == \A j \in Handlers : h[j] = Idle

(* ------------------------- the channel's view -------------------------- *)
MaxRequests == 2
MaxRefreshes == 4
MaxFaults == 1
MaxChatter == 2

QUEUE_REPOST_THRESHOLD_DEFAULT == 5

\* QUEUE_REPOST_THRESHOLD = null: reposting is disabled.
Disabled == -1

\* let QUEUE_REPOST_THRESHOLD = default; if (isFinite(parsed)) parsed < 0 ? null
\* : Math.floor(parsed); the values of the variable here are whole numbers.
ParseRepostThreshold(raw) ==
    IF raw.defined /\ raw.finite
    THEN (IF raw.num < 0 THEN Disabled ELSE raw.num)
    ELSE QUEUE_REPOST_THRESHOLD_DEFAULT

QUEUE_REPOST_THRESHOLD == ParseRepostThreshold(rawQueueRepostThreshold)

Max(a, b) == IF a > b THEN a ELSE b

\* The display document: the members in order, and the note, <<>> when absent.
NoDoc == [users |-> <<>>, note |-> <<>>]
queueBlocks(users, queueNote) == [users |-> users, note |-> queueNote]
leaveQueueNote(leaverId, nextUserId) == <<leaverId, nextUserId>>

\* queueBlocks in full.  opts?.queueNote is undefined or a string; a string is
\* the sequence of its parts, '' the empty one.
NoteUndefined == [defined |-> FALSE, text |-> <<>>]
NoteOf(text) == [defined |-> TRUE, text |-> text]

\* `${i + 1}. <@${u}>` and '_No one is in the queue yet._'
Line(n, u) == [n |-> n, user |-> u]
Placeholder == [n |-> 0, user |-> Null]

\* The member lines numbered as the array index is, from 0.
textLinesFromZero(users) ==
    IF Len(users) > 0 THEN [k \in 1 .. Len(users) |-> Line(k - 1, users[k])]
    ELSE <<Placeholder>>

\* users.length ? users.map((u, i) => `${i + 1}. <@${u}>`).join('\n') : placeholder
textLines(users) ==
    IF Len(users) > 0 THEN [k \in 1 .. Len(users) |-> Line(k, users[k])]
    ELSE <<Placeholder>>

Section(text) == [type |-> "section", text |-> text]

\* The divider, the usage hint and the buttons pushed last.
Footer ==
    <<[type |-> "divider"],
      [type |-> "context", text |-> "View queue with /deploy-queue and join with /deploy-queue join"],
      [type |-> "actions",
       elements |-> <<"queue_join", "queue_leave", "queue_refresh", "queue_more">>]>>

\* const blocks = [title, textLines]; if (opts?.queueNote) blocks.push(note);
\* blocks.push(divider, context, actions); return blocks
blocks(title, users, opts) ==
    <<Section(title), Section(textLines(users))>>
    \o (IF opts.defined /\ opts.text # <<>> THEN <<Section(opts.text)>> ELSE <<>>)
    \o Footer

\* A message of the channel; its ts is its position in chan.  type is "view"
\* (a queue message of the bot), "text" (another message of the bot),
\* "chatter" (a message of somebody else) or "marker" (an item of the history
\* that is not a visible message: the tombstone of a deleted thread parent).
Message(type, doc) == [type |-> type, live |-> TRUE, doc |-> doc]

IsLive(ch, ts) == ts \in 1 .. Len(ch) /\ ch[ts].live
LiveViews == {ts \in 1 .. Len(chan) : chan[ts].type = "view" /\ chan[ts].live}
Chatter == Cardinality({k \in 1 .. Len(chan) : chan[k].type = "chatter"})

\* chat.delete / a deletion by somebody else: the message is gone.
Tombstone(ch, ts) == [ch EXCEPT ![ts] = [@ EXCEPT !.live = FALSE, !.doc = NoDoc]]

\* (m) => m?.type === 'message' && m?.subtype !== 'tombstone'
IsVisible(m) == m.live /\ m.type # "marker"

\* The items after ts that are in the channel, and the visible ones of them.
ItemsAfter(ch, ts) == {k \in (ts + 1) .. Len(ch) : ch[k].live}
VisibleAfter(ch, ts) == Cardinality({k \in ItemsAfter(ch, ts) : IsVisible(ch[k])})

\* The cap on the limit passed to conversations.history.
HistoryLimit == 100

\* conversations.history({oldest: ts, inclusive: false, limit}): at most limit
\* of the items after ts, the most recent ones or the oldest ones.
HistoryPage(ch, ts, limit, newest) ==
    {k \in ItemsAfter(ch, ts) :
        Cardinality({j \in ItemsAfter(ch, ts) : IF newest THEN j > k ELSE j < k}) < limit}

\* queueMessageNeedsRepost when conversations.history answers.
queueMessageNeedsRepost(ch, ts, threshold, newest) ==
    LET limit == Max(1, Min(HistoryLimit, threshold + 1))
        visible == {k \in HistoryPage(ch, ts, limit, newest) : IsVisible(ch[k])}
    IN  Cardinality(visible) > threshold

(* ------------------------------ listeners ------------------------------ *)
Wrapped == {"cmd_join", "cmd_leave", "cmd_next", "queue_join", "queue_leave"}
Slash == {"cmd_join", "cmd_leave", "cmd_next", "cmd_show"}
Joins == {"cmd_join", "queue_join"}
Leaves == {"cmd_leave", "queue_leave"}

\* History: the ViewRecord, the channel and the failure count when the
\* listener called postOrUpdateQueueView.
NoPre == [rec |-> Null, chan |-> <<>>, faults |-> 0]

\* A listener: which one, its position (the command it issues next), and its
\* locals; stale is history: the handles whose update (the try block of
\* chat.update) failed; since and moved are history of the wrapper: the
\* Date.now() of the prune pass of its first read of the head, and whether the
\* listener's own command changed the head.
NoReq == [kind |-> "none", pc |-> "idle", user |-> Null, ts |-> Null,
          before |-> Null, after |-> Null, ok |-> FALSE, next |-> Null, first |-> Null,
          users |-> <<>>, cachedTs |-> Null, effectiveTs |-> Null, newTs |-> Null,
          needsRepost |-> FALSE, stale |-> {}, pre |-> NoPre,
          since |-> Null, moved |-> FALSE]

NoDone == [kind |-> "none", user |-> Null, ok |-> FALSE, error |-> "none", ts |-> Null]

HeadOf(zs) == LET users == ZRange(zs, 0, 0) IN IF Len(users) > 0 THEN users[1] ELSE Null

\* History: the member that replaces another member at the head.
Promotion(zs, zs2) ==
    IF HeadOf(zs) # Null /\ HeadOf(zs2) # Null /\ HeadOf(zs2) # HeadOf(zs)
    THEN SetToBag({HeadOf(zs2)}) ELSE EmptyBag

\* The wrapper notifying whenever there is a head afterwards.
NotifiesAnyHead(before, after, suppressWhenBeforeNull) ==
    after # Null

\* if (after && after !== before) { if (suppress && !before) return; notify }
NotifiesFirst(before, after, suppressWhenBeforeNull) ==
    /\ after # Null /\ after # before
    /\ ~(suppressWhenBeforeNull /\ before = Null)

\* Variables no listener step changes.
fixedVars == <<now, rawQueueMaxAgeHours, ticks, track, h, claimed, last, rawQueueRepostThreshold>>

FreeReq(i) == req[i].pc = "idle" /\ \A j \in Handlers : j < i => req[j].pc # "idle"
ReqQuiet == \A j \in Handlers : req[j] = NoReq

Goto(i, r) == req' = [req EXCEPT ![i] = r]

\* The listener returns, or throws `error` to app.error.
Finish(i, error, ts) ==
    /\ req' = [req EXCEPT ![i] = NoReq]
    /\ done' = [kind |-> req[i].kind, user |-> req[i].user, ok |-> req[i].ok,
                error |-> error, ts |-> ts]

\* A call of the chat platform fails when fail is set.
Fault(fail) ==
    /\ fail => faults < MaxFaults
    /\ faults' = IF fail THEN faults + 1 ELSE faults

\* await pruneStaleQueueEntries(teamId, channelId)
PrunePass ==
    /\ zset' = pruneStaleQueueEntries(zset, now)
    /\ expired' = IF track THEN expired \cup {e.seq : e \in zset \ zset'} ELSE expired
    /\ promoted' = promoted (+) Promotion(zset, zset')

\* A listener is invoked and acknowledges: await ack().
Receive(i, kind, u, ts) ==
    /\ FreeReq(i)
    /\ calls' = calls + 1
    /\ Goto(i, [NoReq EXCEPT !.kind = kind, !.user = u, !.ts = ts,
                             !.pc = IF kind \in Wrapped THEN "before_prune"
                                    ELSE IF kind = "queue_more" THEN "more_delete"
                                    ELSE "list_prune"])
    /\ UNCHANGED <<fixedVars, zset, nextSeq, expired, promoted, chan, faults, notified,
                   lastMessage, done>>

\* The first read of the head taken without its prune pass.
BeforeStale(i) ==
    /\ req[i].pc = "before_prune"
    /\ Goto(i, [req[i] EXCEPT !.since = now, !.pc = "before_zrange"])
    /\ UNCHANGED <<fixedVars, calls, zset, nextSeq, expired, promoted, chan, faults, notified,
                   lastMessage, done>>

\* withFirstChangeNotify: const before = await firstUser(teamId, channelId)
BeforePrune(i) ==
    /\ req[i].pc = "before_prune"
    /\ PrunePass
    /\ Goto(i, [req[i] EXCEPT !.since = now, !.pc = "before_zrange"])
    /\ UNCHANGED <<fixedVars, calls, nextSeq, chan, faults, notified, lastMessage, done>>

BeforeZRange(i) ==
    /\ req[i].pc = "before_zrange"
    /\ Goto(i, [req[i] EXCEPT !.before = HeadOf(zset), !.pc = "op_prune"])
    /\ UNCHANGED <<fixedVars, calls, zset, nextSeq, expired, promoted, chan, faults, notified,
                   lastMessage, done>>

\* await op(): joinQueue, leaveQueue or popNext, each starting with a prune pass
OpPrune(i) ==
    /\ req[i].pc = "op_prune"
    /\ PrunePass
    /\ Goto(i, [req[i] EXCEPT !.pc = IF req[i].kind \in Joins THEN "zadd"
                                     ELSE IF req[i].kind \in Leaves THEN "zrem"
                                     ELSE "head"])
    /\ UNCHANGED <<fixedVars, calls, nextSeq, chan, faults, notified, lastMessage, done>>

\* const added = await joinQueue(teamId, channelId, userId)
OpJoinZAdd(i) ==
    /\ req[i].pc = "zadd"
    /\ LET r == ZAddNX(zset, now, req[i].user, IF track THEN nextSeq ELSE 0)
       IN  /\ zset' = r.zs
           /\ nextSeq' = IF track /\ r.n = 1 THEN nextSeq + 1 ELSE nextSeq
           /\ promoted' = promoted (+) Promotion(zset, r.zs)
           /\ Goto(i, [req[i] EXCEPT !.ok = (r.n = 1),
                                     !.moved = (HeadOf(r.zs) # HeadOf(zset)),
                                     !.pc = IF req[i].kind \in Slash THEN "respond"
                                            ELSE "after_prune"])
    /\ UNCHANGED <<fixedVars, calls, expired, chan, faults, notified, lastMessage, done>>

\* removed = await leaveQueue(teamId, channelId, userId)
OpLeaveZRem(i) ==
    /\ req[i].pc = "zrem"
    /\ LET r == ZRem(zset, req[i].user)
       IN  /\ zset' = r.zs
           /\ promoted' = promoted (+) Promotion(zset, r.zs)
           /\ Goto(i, [req[i] EXCEPT !.ok = (r.n = 1),
                                     !.moved = (HeadOf(r.zs) # HeadOf(zset)),
                                     !.pc = IF req[i].kind \in Slash THEN "respond"
                                            ELSE IF r.n = 1 THEN "next_prune"
                                            ELSE "after_prune"])
    /\ UNCHANGED <<fixedVars, calls, nextSeq, expired, chan, faults, notified, lastMessage, done>>

\* await respond({response_type: 'ephemeral', ...}) of the slash command
OpRespond(i) ==
    /\ req[i].pc = "respond"
    /\ \E fail \in BOOLEAN :
          /\ Fault(fail)
          /\ IF fail
             THEN Finish(i, "respond", Null)
             ELSE /\ Goto(i, [req[i] EXCEPT !.pc = IF req[i].kind \in Leaves /\ req[i].ok
                                                    THEN "next_prune" ELSE "after_prune"])
                  /\ UNCHANGED done
    /\ UNCHANGED <<fixedVars, calls, zset, nextSeq, expired, promoted, chan, notified, lastMessage>>

\* if (removed) nextUserId = await firstUser(teamId, channelId)
OpNextPrune(i) ==
    /\ req[i].pc = "next_prune"
    /\ PrunePass
    /\ Goto(i, [req[i] EXCEPT !.pc = "next_zrange"])
    /\ UNCHANGED <<fixedVars, calls, nextSeq, chan, faults, notified, lastMessage, done>>

OpNextZRange(i) ==
    /\ req[i].pc = "next_zrange"
    /\ Goto(i, [req[i] EXCEPT !.next = HeadOf(zset), !.pc = "after_prune"])
    /\ UNCHANGED <<fixedVars, calls, zset, nextSeq, expired, promoted, chan, faults, notified,
                   lastMessage, done>>

\* popNext: const first = (await redis.zrange(key, 0, 0))[0]; if (!first) return null
OpPopHead(i) ==
    /\ req[i].pc = "head"
    /\ Goto(i, [req[i] EXCEPT !.first = HeadOf(zset),
                              !.pc = IF HeadOf(zset) = Null THEN "nextup" ELSE "popzrem"])
    /\ UNCHANGED <<fixedVars, calls, zset, nextSeq, expired, promoted, chan, faults, notified,
                   lastMessage, done>>

\* popNext: const removed = await redis.zrem(key, first); if (removed === 1) return first
OpPopZRem(i) ==
    /\ req[i].pc = "popzrem"
    /\ LET r == ZRem(zset, req[i].first)
       IN  /\ zset' = r.zs
           /\ promoted' = promoted (+) Promotion(zset, r.zs)
           /\ Goto(i, IF r.n = 1
                      THEN [req[i] EXCEPT !.ok = TRUE, !.pc = "nextup",
                                          !.moved = (HeadOf(r.zs) # HeadOf(zset))]
                      ELSE [req[i] EXCEPT !.first = Null, !.pc = "head"])
    /\ UNCHANGED <<fixedVars, calls, nextSeq, expired, chan, faults, notified, lastMessage, done>>

\* await client.chat.postMessage({text: nextUser ? `Next up: ...` : 'Queue is empty.'})
OpNextUp(i) ==
    /\ req[i].pc = "nextup"
    /\ \E fail \in BOOLEAN :
          /\ Fault(fail)
          /\ IF fail
             THEN Finish(i, "postMessage", Null) /\ UNCHANGED chan
             ELSE /\ chan' = Append(chan, Message("text", NoDoc))
                  /\ Goto(i, [req[i] EXCEPT !.pc = "after_prune"])
                  /\ UNCHANGED done
    /\ UNCHANGED <<fixedVars, calls, zset, nextSeq, expired, promoted, notified, lastMessage>>

\* withFirstChangeNotify: const after = await firstUser(teamId, channelId)
AfterPrune(i) ==
    /\ req[i].pc = "after_prune"
    /\ PrunePass
    /\ Goto(i, [req[i] EXCEPT !.pc = "after_zrange"])
    /\ UNCHANGED <<fixedVars, calls, nextSeq, chan, faults, notified, lastMessage, done>>

AfterZRange(i) ==
    /\ req[i].pc = "after_zrange"
    /\ Goto(i, IF NotifiesFirst(req[i].before, HeadOf(zset), req[i].kind \in Joins)
               THEN [req[i] EXCEPT !.after = HeadOf(zset), !.since = Null, !.moved = FALSE,
                                   !.pc = "notify"]
               ELSE [req[i] EXCEPT !.before = Null, !.since = Null, !.moved = FALSE,
                                   !.pc = "list_prune"])
    /\ UNCHANGED <<fixedVars, calls, zset, nextSeq, expired, promoted, chan, faults, notified,
                   lastMessage, done>>

\* The notification tried again after the platform refused it.
notifyNowFirstRetry(i) ==
    /\ req[i].pc = "notify"
    /\ notified' = notified (+) SetToBag({req[i].after})
    /\ \E fail \in BOOLEAN :
          /\ Fault(fail)
          /\ IF fail
             THEN UNCHANGED <<req, chan, done>>
             ELSE /\ chan' = Append(chan, Message("text", NoDoc))
                  /\ Goto(i, [req[i] EXCEPT !.before = Null, !.after = Null,
                                            !.pc = "list_prune"])
                  /\ UNCHANGED done
    /\ UNCHANGED <<fixedVars, calls, zset, nextSeq, expired, promoted, lastMessage>>

\* await notifyNowFirst({client, channelId, userId: after}), NOTIFY_DM not set:
\* one chat.postMessage to the channel; its failure is thrown to app.error.
notifyNowFirst(i) ==
    /\ req[i].pc = "notify"
    /\ notified' = notified (+) SetToBag({req[i].after})
    /\ \E fail \in BOOLEAN :
          /\ Fault(fail)
          /\ IF fail
             THEN Finish(i, "notify", Null) /\ UNCHANGED chan
             ELSE /\ chan' = Append(chan, Message("text", NoDoc))
                  /\ Goto(i, [req[i] EXCEPT !.before = Null, !.after = Null,
                                            !.pc = "list_prune"])
                  /\ UNCHANGED done
    /\ UNCHANGED <<fixedVars, calls, zset, nextSeq, expired, promoted, lastMessage>>

\* postOrUpdateQueueView: const users = await listQueue(teamId, channel)
ViewListPrune(i) ==
    /\ req[i].pc = "list_prune"
    /\ PrunePass
    /\ Goto(i, [req[i] EXCEPT !.pc = "list_zrange",
                              !.pre = [rec |-> lastMessage, chan |-> chan, faults |-> faults]])
    /\ UNCHANGED <<fixedVars, calls, nextSeq, chan, faults, notified, lastMessage, done>>

ViewListZRange(i) ==
    /\ req[i].pc = "list_zrange"
    /\ Goto(i, [req[i] EXCEPT !.users = ZRange(zset, 0, -1), !.pc = "get"])
    /\ UNCHANGED <<fixedVars, calls, zset, nextSeq, expired, promoted, chan, faults, notified,
                   lastMessage, done>>

\* const blocks = queueBlocks(title, users, {queueNote})
Blocks(r) ==
    queueBlocks(r.users, IF r.kind \in Leaves /\ r.ok
                         THEN leaveQueueNote(r.user, r.next) ELSE <<>>)

\* if (!forceNewMessage && cachedTs && (ts === undefined || cachedTs !== ts))
AfterUpdateTs(r) ==
    IF r.cachedTs # Null /\ (r.ts = Null \/ r.cachedTs # r.ts)
    THEN "update_cached" ELSE "post"

\* The recorded handle tried before the one the caller passed.
AfterRepostCachedFirst(r) ==
    IF r.cachedTs # Null THEN "update_cached"
    ELSE IF r.ts # Null THEN "update_ts" ELSE "post"

\* if (!forceNewMessage && ts)
AfterRepost(r) == IF r.ts # Null THEN "update_ts" ELSE AfterUpdateTs(r)

\* The repost decision taken without looking at the threshold's sign.
ViewGetAnySign(i) ==
    /\ req[i].pc = "get"
    /\ LET r == [req[i] EXCEPT !.cachedTs = lastMessage,
                               !.effectiveTs = IF req[i].ts # Null THEN req[i].ts
                                               ELSE lastMessage]
       IN  Goto(i, [r EXCEPT !.pc = IF r.effectiveTs # Null THEN "history"
                                    ELSE AfterRepost(r)])
    /\ UNCHANGED <<fixedVars, calls, zset, nextSeq, expired, promoted, chan, faults, notified,
                   lastMessage, done>>

\* let cachedTs = await redis.get(lastMessageKey); effectiveTs = ts ?? cachedTs
ViewGet(i) ==
    /\ req[i].pc = "get"
    /\ LET r == [req[i] EXCEPT !.cachedTs = lastMessage,
                               !.effectiveTs = IF req[i].ts # Null THEN req[i].ts
                                               ELSE lastMessage]
       IN  Goto(i, [r EXCEPT !.pc = IF /\ r.effectiveTs # Null
                                       /\ QUEUE_REPOST_THRESHOLD # Disabled
                                       /\ QUEUE_REPOST_THRESHOLD >= 0
                                    THEN "history" ELSE AfterRepost(r)])
    /\ UNCHANGED <<fixedVars, calls, zset, nextSeq, expired, promoted, chan, faults, notified,
                   lastMessage, done>>

\* const needsRepost = await queueMessageNeedsRepost(...): false when
\* conversations.history fails
ViewHistory(i) ==
    /\ req[i].pc = "history"
    /\ \E fail \in BOOLEAN, newest \in BOOLEAN :
          /\ Fault(fail)
          /\ LET needsRepost ==
                     /\ ~fail
                     /\ queueMessageNeedsRepost(chan, req[i].effectiveTs,
                                                QUEUE_REPOST_THRESHOLD, newest)
             IN  Goto(i, [req[i] EXCEPT !.needsRepost = needsRepost,
                                        !.pc = IF needsRepost THEN "delete"
                                               ELSE AfterRepost(req[i])])
    /\ UNCHANGED <<fixedVars, calls, zset, nextSeq, expired, promoted, chan, notified,
                   lastMessage, done>>

\* Every failure of chat.delete taken for a message already gone.
ViewDeleteAnyFailure(i) ==
    /\ req[i].pc = "delete"
    /\ \E fail \in BOOLEAN :
          /\ Fault(fail)
          /\ fail => IsLive(chan, req[i].effectiveTs)
          /\ chan' = IF IsLive(chan, req[i].effectiveTs) /\ ~fail
                     THEN Tombstone(chan, req[i].effectiveTs) ELSE chan
          /\ Goto(i, [req[i] EXCEPT !.pc = "del"])
    /\ UNCHANGED <<fixedVars, calls, zset, nextSeq, expired, promoted, notified,
                   lastMessage, done>>

\* await client.chat.delete({channel, ts: effectiveTs}); message_not_found
\* counts as deleted, any other failure does not
ViewDelete(i) ==
    /\ req[i].pc = "delete"
    /\ \E fail \in BOOLEAN :
          /\ Fault(fail)
          /\ fail => IsLive(chan, req[i].effectiveTs)
          /\ IF fail
             THEN /\ Goto(i, [req[i] EXCEPT !.pc = AfterRepost(req[i])])
                  /\ UNCHANGED chan
             ELSE /\ chan' = IF IsLive(chan, req[i].effectiveTs)
                             THEN Tombstone(chan, req[i].effectiveTs) ELSE chan
                  /\ Goto(i, [req[i] EXCEPT !.pc = "del"])
    /\ UNCHANGED <<fixedVars, calls, zset, nextSeq, expired, promoted, notified,
                   lastMessage, done>>

\* await redis.del(lastMessageKey); cachedTs = null; forceNewMessage = true
ViewDel(i) ==
    /\ req[i].pc = "del"
    /\ lastMessage' = Null
    /\ Goto(i, [req[i] EXCEPT !.cachedTs = Null, !.pc = "post"])
    /\ UNCHANGED <<fixedVars, calls, zset, nextSeq, expired, promoted, chan, faults, notified,
                   done>>

\* await client.chat.update({channel, ts, blocks}); every failure is caught
ViewUpdateTs(i) ==
    /\ req[i].pc = "update_ts"
    /\ \E fail \in BOOLEAN :
          /\ Fault(fail)
          /\ IF IsLive(chan, req[i].ts) /\ ~fail
             THEN /\ chan' = [chan EXCEPT ![req[i].ts].doc = Blocks(req[i])]
                  /\ Goto(i, [req[i] EXCEPT !.pc = "set_ts"])
             ELSE /\ Goto(i, [req[i] EXCEPT !.stale = @ \cup {req[i].ts},
                                            !.pc = AfterUpdateTs(req[i])])
                  /\ UNCHANGED chan
    /\ UNCHANGED <<fixedVars, calls, zset, nextSeq, expired, promoted, notified,
                   lastMessage, done>>

\* await redis.set(lastMessageKey, ts); return {ts}
ViewSetTs(i) ==
    /\ req[i].pc = "set_ts"
    /\ lastMessage' = req[i].ts
    /\ Finish(i, "none", req[i].ts)
    /\ UNCHANGED <<fixedVars, calls, zset, nextSeq, expired, promoted, chan, faults, notified>>

\* await client.chat.update({channel, ts: cachedTs, blocks})
ViewUpdateCached(i) ==
    /\ req[i].pc = "update_cached"
    /\ \E fail \in BOOLEAN :
          /\ Fault(fail)
          /\ IF IsLive(chan, req[i].cachedTs) /\ ~fail
             THEN /\ chan' = [chan EXCEPT ![req[i].cachedTs].doc = Blocks(req[i])]
                  /\ Goto(i, [req[i] EXCEPT !.pc = "set_cached"])
             ELSE /\ Goto(i, [req[i] EXCEPT !.stale = @ \cup {req[i].cachedTs},
                                            !.pc = "post"])
                  /\ UNCHANGED chan
    /\ UNCHANGED <<fixedVars, calls, zset, nextSeq, expired, promoted, notified,
                   lastMessage, done>>

\* await redis.set(lastMessageKey, cachedTs); return {ts: cachedTs}
ViewSetCached(i) ==
    /\ req[i].pc = "set_cached"
    /\ lastMessage' = req[i].cachedTs
    /\ Finish(i, "none", req[i].cachedTs)
    /\ UNCHANGED <<fixedVars, calls, zset, nextSeq, expired, promoted, chan, faults, notified>>

\* The new handle forgotten: the record keeps the handle read before.
ViewSetNewKeepsOld(i) ==
    /\ req[i].pc = "set_new"
    /\ lastMessage' = IF req[i].stale # {} THEN CHOOSE s \in req[i].stale : TRUE
                      ELSE req[i].newTs
    /\ Finish(i, "none", req[i].newTs)
    /\ UNCHANGED <<fixedVars, calls, zset, nextSeq, expired, promoted, chan, faults, notified>>

\* const result = await client.chat.postMessage({channel, blocks}); a failure
\* is thrown to app.error
ViewPost(i) ==
    /\ req[i].pc = "post"
    /\ \E fail \in BOOLEAN :
          /\ Fault(fail)
          /\ IF fail
             THEN Finish(i, "post", Null) /\ UNCHANGED chan
             ELSE /\ chan' = Append(chan, Message("view", Blocks(req[i])))
                  /\ Goto(i, [req[i] EXCEPT !.newTs = Len(chan) + 1, !.pc = "set_new"])
                  /\ UNCHANGED done
    /\ UNCHANGED <<fixedVars, calls, zset, nextSeq, expired, promoted, notified, lastMessage>>

\* if (newTs) await redis.set(lastMessageKey, newTs); return result
ViewSetNew(i) ==
    /\ req[i].pc = "set_new"
    /\ lastMessage' = req[i].newTs
    /\ Finish(i, "none", req[i].newTs)
    /\ UNCHANGED <<fixedVars, calls, zset, nextSeq, expired, promoted, chan, faults, notified>>

\* queue_more, 'delete': await client.chat.delete({channel, ts}); a failure
\* is caught and answered with an ephemeral message
MoreDelete(i) ==
    /\ req[i].pc = "more_delete"
    /\ \E fail \in BOOLEAN :
          /\ Fault(fail)
          /\ IF IsLive(chan, req[i].ts) /\ ~fail
             THEN /\ chan' = Tombstone(chan, req[i].ts)
                  /\ Goto(i, [req[i] EXCEPT !.pc = "more_del"])
                  /\ UNCHANGED done
             ELSE Finish(i, "delete", Null) /\ UNCHANGED chan
    /\ UNCHANGED <<fixedVars, calls, zset, nextSeq, expired, promoted, notified, lastMessage>>

\* queue_more deleting the queue's key instead of the last-message key.
MoreDelQueueKey(i) ==
    /\ req[i].pc = "more_del"
    /\ zset' = {}
    /\ Finish(i, "none", Null)
    /\ UNCHANGED <<fixedVars, calls, nextSeq, expired, promoted, chan, faults, notified,
                   lastMessage>>

\* if (teamId) await redis.del(lastMessageKeyFor(teamId, channelId)); respond
MoreDel(i) ==
    /\ req[i].pc = "more_del"
    /\ lastMessage' = Null
    /\ Finish(i, "none", Null)
    /\ UNCHANGED <<fixedVars, calls, zset, nextSeq, expired, promoted, chan, faults, notified>>

\* A command on lastMessageKey rejects.  redis.get, the redis.del of a repost
\* and the redis.set after chat.postMessage are outside every try block: the
\* error leaves the listener.  The redis.set after a chat.update is inside
\* the try block of that update: its error is caught as the update's would be.
\* The redis.del of queue_more is inside the try block of its chat.delete.
ViewRecordFails(i) ==
    /\ req[i].pc \in {"get", "del", "set_ts", "set_cached", "set_new", "more_del"}
    /\ Fault(TRUE)
    /\ IF req[i].pc \in {"get", "del", "set_new"}
       THEN Finish(i, "store", Null)
       ELSE IF req[i].pc = "more_del"
       THEN Finish(i, "delete", Null)
       ELSE /\ Goto(i, IF req[i].pc = "set_ts"
                       THEN [req[i] EXCEPT !.stale = @ \cup {req[i].ts},
                                           !.pc = AfterUpdateTs(req[i])]
                       ELSE [req[i] EXCEPT !.stale = @ \cup {req[i].cachedTs},
                                           !.pc = "post"])
            /\ UNCHANGED done
    /\ UNCHANGED <<fixedVars, calls, zset, nextSeq, expired, promoted, chan, notified,
                   lastMessage>>

\* Somebody else posts a message to the channel.
SomeonePosts ==
    /\ Chatter < MaxChatter
    /\ chan' = Append(chan, Message("chatter", NoDoc))
    /\ UNCHANGED <<fixedVars, calls, zset, nextSeq, expired, promoted, req, faults, notified,
                   lastMessage, done>>

\* Somebody else removes a queue message of the bot.
MessageRemoved(ts) ==
    /\ ts \in LiveViews
    /\ faults < MaxFaults
    /\ faults' = faults + 1
    /\ chan' = Tombstone(chan, ts)
    /\ UNCHANGED <<fixedVars, calls, zset, nextSeq, expired, promoted, req, notified,
                   lastMessage, done>>

\* A step of listener i after its invocation.
ReqStep(i) ==
    \/ BeforePrune(i) \/ BeforeZRange(i) \/ OpPrune(i)
    \/ OpJoinZAdd(i) \/ OpLeaveZRem(i) \/ OpRespond(i)
    \/ OpNextPrune(i) \/ OpNextZRange(i)
    \/ OpPopHead(i) \/ OpPopZRem(i) \/ OpNextUp(i)
    \/ AfterPrune(i) \/ AfterZRange(i) \/ notifyNowFirst(i)
    \/ ViewListPrune(i) \/ ViewListZRange(i) \/ ViewGet(i)
    \/ ViewHistory(i) \/ ViewDelete(i) \/ ViewDel(i)
    \/ ViewUpdateTs(i) \/ ViewSetTs(i) \/ ViewUpdateCached(i) \/ ViewSetCached(i)
    \/ ViewPost(i) \/ ViewSetNew(i)
    \/ MoreDelete(i) \/ MoreDel(i)
    \/ ViewRecordFails(i)

InitRequests(raws, f) ==
    /\ rawQueueRepostThreshold \in raws
    /\ lastMessage = Null
    /\ chan = <<>>
    /\ req = [i \in Handlers |-> NoReq]
    /\ faults = f
    /\ notified = EmptyBag
    /\ promoted = EmptyBag
    /\ done = NoDone

\* No listener runs: the specifications of the queue operations alone.
NoRequests == InitRequests({EnvUnset}, MaxFaults)

(* --------------------------- specifications ---------------------------- *)
InitWith(raws, tr) ==
    /\ now = StartTime
    /\ rawQueueMaxAgeHours \in raws
    /\ zset = {}
    /\ h = [i \in Handlers |-> Idle]
    /\ calls = 0
    /\ ticks = 0
    /\ nextSeq = 1
    /\ expired = {}
    /\ claimed = EmptyBag
    /\ last = NoReturn
    /\ track = tr
    /\ NoRequests

\* Spec: any number of handlers in flight on the one QueueKey, entries
\* expiring after one hour, the clock advancing by hours.
Init == InitWith({EnvNum(1)}, TRUE)

Next ==
    \/ Tick(MsPerHour)
    \/ \E i \in Handlers, u \in Members : JoinCall(i, u)
    \/ \E i \in Handlers : JoinZAdd(i)
    \/ \E i \in Handlers, u \in Members : LeaveCall(i, u)
    \/ \E i \in Handlers : LeaveZRem(i)
    \/ \E i \in Handlers : ListCall(i)
    \/ \E i \in Handlers : ListZRange(i)
    \/ \E i \in Handlers : PopCall(i)
    \/ \E i \in Handlers : PopHead(i)
    \/ \E i \in Handlers : PopZRem(i)
    \/ \E i \in Handlers : FirstCall(i)
    \/ \E i \in Handlers : FirstZRange(i)

Spec == Init /\ [][Next]_vars

\* SpecSeq: one operation at a time (each completes before the next starts),
\* the clock advancing by milliseconds, so that no entry expires.
SeqJoinCall == \E i \in Handlers, u \in Members : Quiet /\ JoinCall(i, u)
SeqListCall == \E i \in Handlers : Quiet /\ ListCall(i)
SeqPopCall == \E i \in Handlers : Quiet /\ PopCall(i)

NextSeq ==
    \/ Tick(1)
    \/ SeqJoinCall
    \/ \E i \in Handlers : JoinZAdd(i)
    \/ SeqListCall
    \/ \E i \in Handlers : ListZRange(i)
    \/ SeqPopCall
    \/ \E i \in Handlers : PopHead(i)
    \/ \E i \in Handlers : PopZRem(i)

SpecSeq == Init /\ [][NextSeq]_vars

\* SpecPops: a queue of n members, already admitted, and concurrent popNext
\* calls only; no entry is old enough to expire.
QueueOf(S, sc) ==
    {Entry(m, sc[m],
           1 + Cardinality({x \in S : sc[x] < sc[m] \/ (sc[x] = sc[m] /\ x < m)})) : m \in S}

InitialQueues ==
    UNION {{QueueOf(S, sc) : sc \in [S -> {StartTime - 1, StartTime}]} : S \in SUBSET Members}

InitPops ==
    /\ now = StartTime
    /\ rawQueueMaxAgeHours = EnvNum(1)
    /\ zset \in InitialQueues
    /\ h = [i \in Handlers |-> Idle]
    /\ calls = 0
    /\ ticks = 0
    /\ nextSeq = Cardinality(zset) + 1
    /\ expired = {}
    /\ claimed = EmptyBag
    /\ last = NoReturn
    /\ track = TRUE
    /\ NoRequests

OnePopCall == \E i \in Handlers : PopCall(i)

NextPops ==
    \/ Tick(1)
    \/ OnePopCall
    \/ \E i \in Handlers : PopHead(i)
    \/ \E i \in Handlers : PopZRem(i)

SpecPops == InitPops /\ [][NextPops]_vars

\* SpecAge: every value of QUEUE_MAX_AGE_HOURS, one operation at a time,
\* the clock advancing by one hour or by the default maximum age.
AgeJoinCall == \E i \in Handlers, u \in Members : Quiet /\ JoinCall(i, u)
AgeListCall == \E i \in Handlers : Quiet /\ ListCall(i)

NextAge ==
    \/ \E d \in {MsPerHour, QUEUE_MAX_AGE_HOURS_DEFAULT * MsPerHour} : Tick(d)
    \/ AgeJoinCall
    \/ \E i \in Handlers : JoinZAdd(i)
    \/ AgeListCall
    \/ \E i \in Handlers : ListZRange(i)

SpecAge == InitWith(RawValues, TRUE) /\ [][NextAge]_vars

\* SpecLive: handlers keep being invoked without end (no history is kept);
\* an invoked handler's continuation runs once the store has answered.
NextLive ==
    \/ \E i \in Handlers, u \in Members : JoinCall(i, u)
    \/ \E i \in Handlers, u \in Members : LeaveCall(i, u)
    \/ \E i \in Handlers : PopCall(i)
    \/ \E i \in Handlers : JoinZAdd(i)
    \/ \E i \in Handlers : LeaveZRem(i)
    \/ \E i \in Handlers : PopHead(i)
    \/ \E i \in Handlers : PopZRem(i)

SpecLive ==
    /\ InitWith({EnvNum(1)}, FALSE)
    /\ [][NextLive]_vars
    /\ \A i \in Handlers : WF_vars(Step(i))

(* ---------------------- specifications: listeners ---------------------- *)
\* The listeners of app.command('/deploy-queue') and of the buttons.  A
\* button is pressed on a queue message that is in the channel.
CmdJoin(i, u) == Receive(i, "cmd_join", u, Null)
CmdLeave(i, u) == Receive(i, "cmd_leave", u, Null)
CmdNext(i) == Receive(i, "cmd_next", Null, Null)
CmdShow(i) == Receive(i, "cmd_show", Null, Null)
QueueJoin(i, u, ts) == ts \in LiveViews /\ Receive(i, "queue_join", u, ts)
QueueLeave(i, u, ts) == ts \in LiveViews /\ Receive(i, "queue_leave", u, ts)
QueueRefresh(i, ts) == ts \in LiveViews /\ Receive(i, "queue_refresh", Null, ts)
QueueMore(i, ts) == ts \in LiveViews /\ Receive(i, "queue_more", Null, ts)

InitListeners(queues, thresholds, f) ==
    /\ now = StartTime
    /\ rawQueueMaxAgeHours = EnvNum(1)
    /\ zset \in queues
    /\ h = [i \in Handlers |-> Idle]
    /\ calls = 0
    /\ ticks = 0
    /\ nextSeq = Cardinality(zset) + 1
    /\ expired = {}
    /\ claimed = EmptyBag
    /\ last = NoReturn
    /\ track = TRUE
    /\ InitRequests(thresholds, f)

\* SpecNotify: the listeners that change the queue, one at a time, over a
\* queue already filled, on a platform that may fail; reposting is disabled.
InitNotify == InitListeners(InitialQueues, {EnvNum(-1)}, 0)

NextNotify ==
    \/ \E i \in Handlers, u \in Members : ReqQuiet /\ calls < MaxRequests /\ CmdJoin(i, u)
    \/ \E i \in Handlers, u \in Members : ReqQuiet /\ calls < MaxRequests /\ CmdLeave(i, u)
    \/ \E i \in Handlers : ReqQuiet /\ calls < MaxRequests /\ CmdNext(i)
    \/ \E i \in Handlers, u \in Members, ts \in LiveViews : ReqQuiet /\ calls < MaxRequests /\ QueueJoin(i, u, ts)
    \/ \E i \in Handlers, u \in Members, ts \in LiveViews : ReqQuiet /\ calls < MaxRequests /\ QueueLeave(i, u, ts)
    \/ \E i \in Handlers : BeforePrune(i)
    \/ \E i \in Handlers : BeforeZRange(i)
    \/ \E i \in Handlers : OpPrune(i)
    \/ \E i \in Handlers : OpJoinZAdd(i)
    \/ \E i \in Handlers : OpLeaveZRem(i)
    \/ \E i \in Handlers : OpRespond(i)
    \/ \E i \in Handlers : OpNextPrune(i)
    \/ \E i \in Handlers : OpNextZRange(i)
    \/ \E i \in Handlers : OpPopHead(i)
    \/ \E i \in Handlers : OpPopZRem(i)
    \/ \E i \in Handlers : OpNextUp(i)
    \/ \E i \in Handlers : AfterPrune(i)
    \/ \E i \in Handlers : AfterZRange(i)
    \/ \E i \in Handlers : notifyNowFirst(i)
    \/ \E i \in Handlers : ViewListPrune(i)
    \/ \E i \in Handlers : ViewListZRange(i)
    \/ \E i \in Handlers : ViewGet(i)
    \/ \E i \in Handlers : ViewUpdateTs(i)
    \/ \E i \in Handlers : ViewSetTs(i)
    \/ \E i \in Handlers : ViewUpdateCached(i)
    \/ \E i \in Handlers : ViewSetCached(i)
    \/ \E i \in Handlers : ViewPost(i)
    \/ \E i \in Handlers : ViewSetNew(i)

SpecNotify == InitNotify /\ [][NextNotify]_vars

\* SpecView: the listeners that only touch the view, one event at a time,
\* over a queue already filled; the platform may fail, other people post to
\* the channel and may remove a queue message.
InitView == InitListeners(InitialQueues, {EnvNum(0), EnvNum(1)}, 0)

NextView ==
    \/ ReqQuiet /\ SomeonePosts
    \/ \E ts \in LiveViews : ReqQuiet /\ MessageRemoved(ts)
    \/ \E i \in Handlers : ReqQuiet /\ calls < MaxRefreshes /\ CmdShow(i)
    \/ \E i \in Handlers, ts \in LiveViews : ReqQuiet /\ calls < MaxRefreshes /\ QueueRefresh(i, ts)
    \/ \E i \in Handlers, ts \in LiveViews : ReqQuiet /\ calls < MaxRefreshes /\ QueueMore(i, ts)
    \/ \E i \in Handlers : ViewListPrune(i)
    \/ \E i \in Handlers : ViewListZRange(i)
    \/ \E i \in Handlers : ViewGet(i)
    \/ \E i \in Handlers : ViewHistory(i)
    \/ \E i \in Handlers : ViewDelete(i)
    \/ \E i \in Handlers : ViewDel(i)
    \/ \E i \in Handlers : ViewUpdateTs(i)
    \/ \E i \in Handlers : ViewSetTs(i)
    \/ \E i \in Handlers : ViewUpdateCached(i)
    \/ \E i \in Handlers : ViewSetCached(i)
    \/ \E i \in Handlers : ViewPost(i)
    \/ \E i \in Handlers : ViewSetNew(i)
    \/ \E i \in Handlers : MoreDelete(i)
    \/ \E i \in Handlers : MoreDel(i)

SpecView == InitView /\ [][NextView]_vars

\* SpecStale: as SpecView, with fewer listeners invoked.
NextStale ==
    \/ ReqQuiet /\ SomeonePosts
    \/ \E ts \in LiveViews : ReqQuiet /\ MessageRemoved(ts)
    \/ \E i \in Handlers : ReqQuiet /\ calls < MaxRequests /\ CmdShow(i)
    \/ \E i \in Handlers, ts \in LiveViews : ReqQuiet /\ calls < MaxRequests /\ QueueRefresh(i, ts)
    \/ \E i \in Handlers, ts \in LiveViews : ReqQuiet /\ calls < MaxRequests /\ QueueMore(i, ts)
    \/ \E i \in Handlers : ViewListPrune(i)
    \/ \E i \in Handlers : ViewListZRange(i)
    \/ \E i \in Handlers : ViewGet(i)
    \/ \E i \in Handlers : ViewHistory(i)
    \/ \E i \in Handlers : ViewDelete(i)
    \/ \E i \in Handlers : ViewDel(i)
    \/ \E i \in Handlers : ViewUpdateTs(i)
    \/ \E i \in Handlers : ViewSetTs(i)
    \/ \E i \in Handlers : ViewUpdateCached(i)
    \/ \E i \in Handlers : ViewSetCached(i)
    \/ \E i \in Handlers : ViewPost(i)
    \/ \E i \in Handlers : ViewSetNew(i)
    \/ \E i \in Handlers : MoreDelete(i)
    \/ \E i \in Handlers : MoreDel(i)

SpecStale == InitView /\ [][NextStale]_vars

\* SpecRace: listeners of the slash command in flight together, over a queue
\* already filled, on a platform that does not fail; reposting is disabled.
InitRace == InitListeners(InitialQueues, {EnvNum(-1)}, MaxFaults)

NextRace ==
    \/ \E i \in Handlers, u \in Members : calls < NumHandlers /\ CmdJoin(i, u)
    \/ \E i \in Handlers, u \in Members : calls < NumHandlers /\ CmdLeave(i, u)
    \/ \E i \in Handlers : calls < NumHandlers /\ CmdShow(i)
    \/ \E i \in Handlers : BeforePrune(i)
    \/ \E i \in Handlers : BeforeZRange(i)
    \/ \E i \in Handlers : OpPrune(i)
    \/ \E i \in Handlers : OpJoinZAdd(i)
    \/ \E i \in Handlers : OpLeaveZRem(i)
    \/ \E i \in Handlers : OpRespond(i)
    \/ \E i \in Handlers : OpNextPrune(i)
    \/ \E i \in Handlers : OpNextZRange(i)
    \/ \E i \in Handlers : AfterPrune(i)
    \/ \E i \in Handlers : AfterZRange(i)
    \/ \E i \in Handlers : notifyNowFirst(i)
    \/ \E i \in Handlers : ViewListPrune(i)
    \/ \E i \in Handlers : ViewListZRange(i)
    \/ \E i \in Handlers : ViewGet(i)
    \/ \E i \in Handlers : ViewUpdateCached(i)
    \/ \E i \in Handlers : ViewSetCached(i)
    \/ \E i \in Handlers : ViewPost(i)
    \/ \E i \in Handlers : ViewSetNew(i)

SpecRace == InitRace /\ [][NextRace]_vars

\* SpecRefresh: the listeners that only touch the view, one event at a time,
\* with reposting disabled or at threshold 0.  The channel starts with up to
\* two queue messages of the bot, one of them recorded; the platform and the
\* store may fail, other people post to the channel and may remove a queue
\* message.
\* Every member in the queue, U1 admitted a millisecond before the others.
FullQueue == QueueOf(Members, [m \in Members |-> IF m = 1 THEN StartTime - 1 ELSE StartTime])

\* The queue's part of an initial state: one of `queues`, nothing in flight.
InitQueue(queues) ==
    /\ now = StartTime
    /\ rawQueueMaxAgeHours = EnvNum(1)
    /\ zset \in queues
    /\ h = [i \in Handlers |-> Idle]
    /\ calls = 0
    /\ ticks = 0
    /\ nextSeq = Cardinality(zset) + 1
    /\ expired = {}
    /\ claimed = EmptyBag
    /\ last = NoReturn
    /\ track = TRUE

InitRefresh ==
    /\ InitQueue({{}, FullQueue})
    /\ rawQueueRepostThreshold \in {EnvNum(-1), EnvNum(0)}
    /\ \E n \in 0 .. 2 :
          /\ chan = [k \in 1 .. n |-> Message("view", queueBlocks(ZRange(zset, 0, -1), <<>>))]
          /\ lastMessage \in (IF n = 0 THEN {Null} ELSE 1 .. n)
    /\ req = [i \in Handlers |-> NoReq]
    /\ faults = 0
    /\ notified = EmptyBag
    /\ promoted = EmptyBag
    /\ done = NoDone

NextRefresh ==
    \/ ReqQuiet /\ SomeonePosts
    \/ \E ts \in LiveViews : ReqQuiet /\ MessageRemoved(ts)
    \/ \E i \in Handlers : ReqQuiet /\ calls < MaxRequests /\ CmdShow(i)
    \/ \E i \in Handlers, ts \in LiveViews : ReqQuiet /\ calls < MaxRequests /\ QueueRefresh(i, ts)
    \/ \E i \in Handlers, ts \in LiveViews : ReqQuiet /\ calls < MaxRequests /\ QueueMore(i, ts)
    \/ \E i \in Handlers : ViewListPrune(i)
    \/ \E i \in Handlers : ViewListZRange(i)
    \/ \E i \in Handlers : ViewGet(i)
    \/ \E i \in Handlers : ViewHistory(i)
    \/ \E i \in Handlers : ViewDelete(i)
    \/ \E i \in Handlers : ViewDel(i)
    \/ \E i \in Handlers : ViewUpdateTs(i)
    \/ \E i \in Handlers : ViewSetTs(i)
    \/ \E i \in Handlers : ViewUpdateCached(i)
    \/ \E i \in Handlers : ViewSetCached(i)
    \/ \E i \in Handlers : ViewPost(i)
    \/ \E i \in Handlers : ViewSetNew(i)
    \/ \E i \in Handlers : MoreDelete(i)
    \/ \E i \in Handlers : MoreDel(i)
    \/ \E i \in Handlers : ViewRecordFails(i)

SpecRefresh == InitRefresh /\ [][NextRefresh]_vars

\* SpecFrame: the listeners of SpecRefresh over the full queue and an empty
\* channel, reposting at threshold 0, with the clock advancing so that
\* entries expire: first U1's, then everybody's.
InitFrame == InitListeners({FullQueue}, {EnvNum(0)}, 0)

NextFrame ==
    \/ ReqQuiet /\ Tick(MsPerHour - 1)
    \/ NextRefresh

SpecFrame == InitFrame /\ [][NextFrame]_vars

\* SpecRender: queueBlocks called again and again, with every title, member
\* list and note; chan holds the last two calls, arguments and result.
Titles == {"Channel Queue", "Deploy Queue"}
MemberLists == {ZRange(zs, 0, -1) : zs \in InitialQueues}
Notes ==
    {NoteUndefined, NoteOf(<<>>)}
    \cup {NoteOf(leaveQueueNote(1, v)) : v \in {Null, NumMembers}}

Renders(title, users, opts) ==
    /\ LET m == Message("view", [title |-> title, users |-> users, opts |-> opts,
                                  blocks |-> blocks(title, users, opts)])
       IN  chan' = IF Len(chan) < 2 THEN Append(chan, m) ELSE <<chan[2], m>>
    /\ UNCHANGED <<fixedVars, calls, zset, nextSeq, expired, promoted, req, faults, notified,
                   lastMessage, done>>

InitRender == InitListeners({{}}, {EnvUnset}, MaxFaults)

NextRender == \E title \in Titles, users \in MemberLists, opts \in Notes : Renders(title, users, opts)

SpecRender == InitRender /\ [][NextRender]_vars

\* SpecBuried: refreshes, one at a time, of a channel whose recorded queue
\* message has other items after it: a few messages and markers in any order,
\* or as many messages as the history's limit allows and one more; nothing
\* fails.
Tails(n) == UNION {[1 .. k -> {"chatter", "marker"}] : k \in 0 .. n}

InitBuried ==
    /\ InitQueue({{}})
    /\ rawQueueRepostThreshold \in {EnvNum(0), EnvNum(1), EnvNum(HistoryLimit)}
    /\ \E tail \in Tails(MaxChatter + 1)
                   \cup {[k \in 1 .. n |-> "chatter"] : n \in {HistoryLimit, HistoryLimit + 1}} :
          chan = <<Message("view", queueBlocks(<<>>, <<>>))>>
                 \o [k \in 1 .. Len(tail) |-> Message(tail[k], NoDoc)]
    /\ lastMessage = 1
    /\ req = [i \in Handlers |-> NoReq]
    /\ faults = MaxFaults
    /\ notified = EmptyBag
    /\ promoted = EmptyBag
    /\ done = NoDone

NextBuried ==
    \/ \E i \in Handlers : ReqQuiet /\ calls < MaxRequests /\ CmdShow(i)
    \/ \E i \in Handlers, ts \in LiveViews : ReqQuiet /\ calls < MaxRequests /\ QueueRefresh(i, ts)
    \/ \E i \in Handlers : ViewListPrune(i)
    \/ \E i \in Handlers : ViewListZRange(i)
    \/ \E i \in Handlers : ViewGet(i)
    \/ \E i \in Handlers : ViewHistory(i)
    \/ \E i \in Handlers : ViewDelete(i)
    \/ \E i \in Handlers : ViewDel(i)
    \/ \E i \in Handlers : ViewUpdateTs(i)
    \/ \E i \in Handlers : ViewSetTs(i)
    \/ \E i \in Handlers : ViewUpdateCached(i)
    \/ \E i \in Handlers : ViewSetCached(i)
    \/ \E i \in Handlers : ViewPost(i)
    \/ \E i \in Handlers : ViewSetNew(i)

SpecBuried == InitBuried /\ [][NextBuried]_vars

\* SpecViewRace: the listeners that only touch the view in flight together,
\* in a channel with one recorded queue message, reposting at threshold 0,
\* while other people post; nothing fails and nobody else removes a message.
InitViewRace ==
    /\ InitQueue({{}})
    /\ rawQueueRepostThreshold = EnvNum(0)
    /\ chan = <<Message("view", queueBlocks(<<>>, <<>>))>>
    /\ lastMessage = 1
    /\ req = [i \in Handlers |-> NoReq]
    /\ faults = MaxFaults
    /\ notified = EmptyBag
    /\ promoted = EmptyBag
    /\ done = NoDone

NextViewRace ==
    \/ SomeonePosts
    \/ \E i \in Handlers : calls < NumHandlers /\ CmdShow(i)
    \/ \E i \in Handlers, ts \in LiveViews : calls < NumHandlers /\ QueueRefresh(i, ts)
    \/ \E i \in Handlers, ts \in LiveViews : calls < NumHandlers /\ QueueMore(i, ts)
    \/ \E i \in Handlers : ViewListPrune(i)
    \/ \E i \in Handlers : ViewListZRange(i)
    \/ \E i \in Handlers : ViewGet(i)
    \/ \E i \in Handlers : ViewHistory(i)
    \/ \E i \in Handlers : ViewDelete(i)
    \/ \E i \in Handlers : ViewDel(i)
    \/ \E i \in Handlers : ViewUpdateTs(i)
    \/ \E i \in Handlers : ViewSetTs(i)
    \/ \E i \in Handlers : ViewUpdateCached(i)
    \/ \E i \in Handlers : ViewSetCached(i)
    \/ \E i \in Handlers : ViewPost(i)
    \/ \E i \in Handlers : ViewSetNew(i)
    \/ \E i \in Handlers : MoreDelete(i)
    \/ \E i \in Handlers : MoreDel(i)

SpecViewRace == InitViewRace /\ [][NextViewRace]_vars

\* SpecExpiry: the listeners of the slash command that change the queue, one
\* at a time, over the full queue, while the clock advances at any moment,
\* also between two awaits of a listener: first U1's entry expires, then
\* everybody's.  Nothing fails; reposting is disabled.
InitExpiry == InitListeners({FullQueue}, {EnvNum(-1)}, MaxFaults)

NextExpiry ==
    \/ Tick(MsPerHour - 1)
    \/ \E i \in Handlers, u \in Members : ReqQuiet /\ calls < MaxRequests /\ CmdJoin(i, u)
    \/ \E i \in Handlers, u \in Members : ReqQuiet /\ calls < MaxRequests /\ CmdLeave(i, u)
    \/ \E i \in Handlers : ReqQuiet /\ calls < MaxRequests /\ CmdNext(i)
    \/ \E i \in Handlers : BeforePrune(i)
    \/ \E i \in Handlers : BeforeZRange(i)
    \/ \E i \in Handlers : OpPrune(i)
    \/ \E i \in Handlers : OpJoinZAdd(i)
    \/ \E i \in Handlers : OpLeaveZRem(i)
    \/ \E i \in Handlers : OpRespond(i)
    \/ \E i \in Handlers : OpNextPrune(i)
    \/ \E i \in Handlers : OpNextZRange(i)
    \/ \E i \in Handlers : OpPopHead(i)
    \/ \E i \in Handlers : OpPopZRem(i)
    \/ \E i \in Handlers : OpNextUp(i)
    \/ \E i \in Handlers : AfterPrune(i)
    \/ \E i \in Handlers : AfterZRange(i)
    \/ \E i \in Handlers : notifyNowFirst(i)
    \/ \E i \in Handlers : ViewListPrune(i)
    \/ \E i \in Handlers : ViewListZRange(i)
    \/ \E i \in Handlers : ViewGet(i)
    \/ \E i \in Handlers : ViewUpdateCached(i)
    \/ \E i \in Handlers : ViewSetCached(i)
    \/ \E i \in Handlers : ViewPost(i)
    \/ \E i \in Handlers : ViewSetNew(i)

SpecExpiry == InitExpiry /\ [][NextExpiry]_vars

(* ------------------------------- claims -------------------------------- *)
\* The members of zs in the order of their admission.
AdmissionOrder(zs) ==
    [k \in 1 .. Cardinality(zs) |->
        (CHOOSE e \in zs : Cardinality({x \in zs : x.seq < e.seq}) = k - 1).member]

Admissions == 1 .. (nextSeq - 1)
Removals == {c \in BagToSet(claimed) : c.member # Null}
Returns(i) == h[i].pc # "idle" /\ h'[i] = Idle

\* C1: in every reachable state, whatever the interleaving of join, leave,
\* pop, list and prune steps, each member occurs at most once in the queue.
C1_UniqueMember ==
    \A e1 \in zset, e2 \in zset : e1.member = e2.member => e1 = e2

\* A second join of a member is in flight while the member is in the queue.
C1_Witness ==
    \E i \in Handlers :
        /\ h[i].pc = "zadd"
        /\ HasMember(zset, h[i].user)
        /\ last.op = "join" /\ last.ok /\ last.user = h[i].user

C3_FifoOrder ==
    [][\A i \in Handlers :
          /\ (h[i].pc = "zrange" /\ Returns(i)) => last'.list = AdmissionOrder(zset)
          /\ (h[i].pc = "popzrem" /\ Returns(i)) => last'.val = AdmissionOrder(zset)[1]
          /\ (h[i].pc = "head" /\ Returns(i)) => (zset = {} /\ last'.val = Null)]_vars

\* C4: two entries of the queue never have the same rank, and the earlier
\* admitted has the lower rank.
C4_DistinctRanks ==
    \A e1 \in zset, e2 \in zset :
        e1 # e2 => /\ e1.score # e2.score
                   /\ (e1.seq < e2.seq <=> e1.score < e2.score)

\* C5: when all that happened is N joins of N distinct members into the
\* empty queue, all returned and none expired, the list has length N, no
\* duplicates, and no member precedes one admitted earlier.
C5_ConcurrentJoins ==
    (Quiet /\ calls >= 2 /\ calls = nextSeq - 1 /\ expired = {}) =>
        LET l == ZRange(zset, 0, -1)
        IN  /\ Len(l) = calls
            /\ \A j \in 1 .. Len(l), k \in 1 .. Len(l) : l[j] = l[k] => j = k
            /\ l = AdmissionOrder(zset)

\* C6: k popNext calls against a queue of n >= k members, nothing else
\* running and nothing expiring: no call returns null, the members returned
\* are pairwise distinct, and once all have returned the other n - k remain.
C6_RaceSafePop ==
    calls <= nextSeq - 1 =>
        /\ \A c \in BagToSet(claimed) :
              /\ c.member # Null
              /\ CopiesIn(c, claimed) = 1
              /\ \A d \in BagToSet(claimed) : d.member = c.member => d = c
              /\ ~HasMember(zset, c.member)
        /\ Quiet => /\ BagCardinality(claimed) = calls
                    /\ Cardinality(zset) = (nextSeq - 1) - calls

\* Two pops have read the same head of a two-member queue.
C6_Witness ==
    \E i \in Handlers, j \in Handlers :
        /\ i # j
        /\ h[i].pc = "popzrem" /\ h[j].pc = "popzrem"
        /\ h[i].first = h[j].first
        /\ Cardinality(zset) = 2

\* C7: every admission is in the queue, or was removed by exactly one of: a
\* prune pass, a leave that reported true, a pop that returned the member;
\* and every reported removal did remove an entry.
C7_OneRemover ==
    /\ \A c \in Removals : c.seq \in Admissions /\ CopiesIn(c, claimed) = 1
    /\ \A s \in Admissions :
          Cardinality({e \in zset : e.seq = s})
          + Cardinality({s} \cap expired)
          + Cardinality({c \in Removals : c.seq = s}) = 1

\* A pop returned a member while a leave of that member was in flight.
C7_Witness ==
    /\ last.op = "pop" /\ last.val # Null
    /\ \E i \in Handlers : h[i].pc = "zrem" /\ h[i].user = last.val
    /\ \E c \in Removals : c.op = "pop" /\ c.member = last.val

\* C8: every popNext invocation eventually returns, also while other
\* handlers keep joining and leaving.
C8_PopReturns ==
    \A i \in Handlers : (h[i].op = "pop") ~> (h[i].op # "pop")

\* What the read of handler i returns: the whole range, or the head.
ReadBy(i) ==
    LET r == IF h[i].pc = "zrange" THEN ZRange(zset, 0, -1) ELSE ZRange(zset, 0, 0)
    IN  {r[k] : k \in 1 .. Len(r)}

\* C9 (as stated): no member that listQueue, popNext's head read or firstUser
\* returns has an entry older than now - maxAge when the result is read.
C9_FreshAtReadTime ==
    [][\A i \in Handlers :
          (h[i].pc \in {"zrange", "head", "firstzrange"} /\ h'[i] # h[i]
           /\ QUEUE_MAX_AGE_MS # Null) =>
              \A e \in zset : e.member \in ReadBy(i) => ~(e.score < now - QUEUE_MAX_AGE_MS)]_vars

\* C9 (amended): between the prune pass of a reading operation and its
\* reads, the queue holds no entry whose rank is at or before the cutoff
\* that prune pass used, now - maxAge at the time of the pass.
C9_FreshAtPruneTime ==
    \A i \in Handlers :
        h[i].cutoff > 0 => \A e \in zset : e.score > h[i].cutoff

\* A reading operation is past a prune pass with a cutoff, a prune pass has
\* removed an entry, and the queue is not empty.
C9_Witness ==
    /\ \E i \in Handlers : h[i].pc \in {"zrange", "head", "firstzrange"} /\ h[i].cutoff > 0
    /\ expired # {}
    /\ zset # {}

NonPositiveAge == rawQueueMaxAgeHours.defined /\ rawQueueMaxAgeHours.finite
                  /\ rawQueueMaxAgeHours.num <= 0
DefaultAge == ~rawQueueMaxAgeHours.defined \/ ~rawQueueMaxAgeHours.finite

\* C10 (as stated): with QUEUE_MAX_AGE_HOURS non-positive or not set, no
\* operation removes an entry because of its age.
C10_DisabledWhenAbsent ==
    (NonPositiveAge \/ ~rawQueueMaxAgeHours.defined) => expired = {}

\* C10 (amended): with QUEUE_MAX_AGE_HOURS a non-positive number no
\* operation removes an entry because of its age; when it is not set, or
\* not a number, the default of 12 hours is the maximum age and prune
\* passes remove the entries that old.
C10_DisabledWhenNonPositive ==
    /\ NonPositiveAge => expired = {}
    /\ DefaultAge =>
          /\ QUEUE_MAX_AGE_MS = QUEUE_MAX_AGE_HOURS_DEFAULT * MsPerHour
          /\ \A i \in Handlers :
                h[i].pc = "zrange" =>
                    /\ h[i].cutoff > 0
                    /\ \A e \in zset : e.score > h[i].cutoff

\* Pruning is disabled, and a list is past its prune pass while the queue
\* holds an entry admitted 12 hours or more before another one.
C10_Witness ==
    /\ NonPositiveAge
    /\ \E i \in Handlers : h[i].pc = "zrange"
    /\ \E a \in zset, b \in zset :
          b.score - a.score >= QUEUE_MAX_AGE_HOURS_DEFAULT * MsPerHour

\* C11: an invocation of withFirstChangeNotify calls notifyNowFirst once, for
\* the head read after the mutation, when that head exists, differs from the
\* head read before and it is not so that suppression is set and there was
\* no head before; otherwise it does not call it.  So a join into the empty
\* queue, a join that leaves the head in place and a leave that empties the
\* queue notify nobody, and the head leaving a longer queue notifies the
\* next member once.
C11_NotifyRule ==
    [][\A i \in Handlers :
          /\ (req[i].pc = "after_zrange" /\ req'[i] # req[i]) =>
                LET before == req[i].before
                    after == HeadOf(zset)
                    due == /\ after # Null /\ after # before
                           /\ ~(req[i].kind \in Joins /\ before = Null)
                    notifies == req'[i].pc = "notify"
                IN  /\ notifies <=> due
                    /\ notifies => req'[i].after = after
                    /\ (req[i].kind \in Joins /\ before = Null) => ~notifies
                    /\ (req[i].kind \in Joins /\ before # Null /\ after = before) => ~notifies
                    /\ (req[i].kind \in Leaves /\ req[i].ok /\ zset = {}) => ~notifies
                    /\ (req[i].kind \in Leaves /\ req[i].ok /\ before = req[i].user
                        /\ zset # {}) => (notifies /\ req'[i].after = req[i].next)
          /\ (req[i].pc = "notify" /\ (req'[i] # req[i] \/ faults' # faults)) =>
                /\ notified' = notified (+) SetToBag({req[i].after})
                /\ req'[i].pc # "notify"
          /\ (\A j \in Handlers : req[j].pc # "notify") => notified' = notified]_vars

\* The head has left a queue of two, and the one notification there has
\* been so far went to the member behind it.
C11_Witness ==
    \E i \in Handlers :
        /\ req[i].kind \in Leaves /\ req[i].pc = "list_prune"
        /\ req[i].ok /\ req[i].next # Null
        /\ notified = SetToBag({req[i].next})
        /\ promoted = notified

\* C12: however the listeners interleave, a notification is sent for every
\* member that replaces another at the head of the queue, and only one:
\* for a member that was promoted, never more notifications than promotions,
\* and as many once every listener has returned.
C12_OncePerPromotion ==
    \A m \in Members :
        CopiesIn(m, promoted) > 0 =>
            /\ CopiesIn(m, notified) <= CopiesIn(m, promoted)
            /\ ReqQuiet => CopiesIn(m, notified) = CopiesIn(m, promoted)

\* C13: when the chat platform refuses the notification, the queue is left
\* as the mutation made it, the listener ends there and notifyNowFirst is not
\* called again.
C13_FailedNotifyKeepsMutation ==
    [][\A i \in Handlers :
          (req[i].pc = "notify" /\ faults' # faults) =>
              /\ zset' = zset
              /\ req'[i] = NoReq
              /\ done'.error = "notify" /\ done'.ok = req[i].ok
              /\ BagCardinality(notified') = BagCardinality(notified) + 1
              /\ (req[i].kind \in Joins /\ req[i].ok) => HasMember(zset', req[i].user)
              /\ (req[i].kind \in Leaves /\ req[i].ok) => ~HasMember(zset', req[i].user)
              /\ (req[i].kind = "cmd_next" /\ req[i].ok) => ~HasMember(zset', req[i].first)]_vars

\* The notification after a leave that removed the head was refused: the
\* leaver is out of the queue and the next member is at its head.
C13_Witness ==
    /\ ReqQuiet
    /\ done.error = "notify" /\ done.ok /\ done.kind \in Leaves
    /\ ~HasMember(zset, done.user)
    /\ zset # {}
    /\ BagCardinality(notified) = 1

\* C14: a listener whose own join, leave or pop changed the queue ends with
\* a queue message in the channel that shows the queue as it then is, also
\* when a call of the chat platform fails on the way.
C14_EndsWithCurrentView ==
    [][\A i \in Handlers :
          (req[i].kind \in Wrapped /\ req[i].ok /\ req'[i] = NoReq) =>
              \E ts \in 1 .. Len(chan') :
                  /\ chan'[ts].type = "view" /\ chan'[ts].live
                  /\ chan'[ts].doc.users = ZRange(zset', 0, -1)]_vars

\* C15: the channel never holds two queue messages of the bot at once.
C15_OneLiveView ==
    Cardinality(LiveViews) <= 1

\* C16: once every listener has returned, the recorded queue message shows
\* the members that are in the queue.
C16_ViewShowsQueue ==
    (ReqQuiet /\ calls > 0) =>
        /\ IsLive(chan, lastMessage)
        /\ chan[lastMessage].doc.users = ZRange(zset, 0, -1)

\* Listener i returns from postOrUpdateQueueView, called with the record at
\* rec, without a failure of the chat platform since the call.
Refreshed(i) ==
    /\ req[i].kind \in {"cmd_show", "queue_refresh"}
    /\ req[i].pc \in {"set_ts", "set_cached", "set_new", "post"}
    /\ req'[i] = NoReq
    /\ faults' = req[i].pre.faults

\* C17: a refresh that finds the recorded message in the channel with
\* nothing posted after it edits that message, posts and deletes nothing,
\* returns its handle and leaves the record at it.
C17_EditInPlace ==
    [][\A i \in Handlers :
          LET pre == req[i].pre
          IN  (/\ Refreshed(i)
               /\ IsLive(pre.chan, pre.rec)
               /\ VisibleAfter(pre.chan, pre.rec) = 0) =>
                  /\ done'.ts = pre.rec
                  /\ lastMessage' = pre.rec
                  /\ Len(chan') = Len(pre.chan)
                  /\ \A k \in 1 .. Len(chan') : chan'[k].live = pre.chan[k].live
                  /\ chan'[pre.rec].doc = Blocks(req[i])]_vars

\* C18: a refresh that finds T + 1 or more visible messages after the
\* recorded one (T the repost threshold, T >= 0) deletes the recorded message
\* (or finds it gone), posts a new one and records the new handle.
C18_RepostWhenBuried ==
    [][\A i \in Handlers :
          LET pre == req[i].pre
          IN  (/\ Refreshed(i)
               /\ pre.rec # Null
               /\ QUEUE_REPOST_THRESHOLD >= 0
               /\ VisibleAfter(pre.chan, pre.rec) >= QUEUE_REPOST_THRESHOLD + 1) =>
                  /\ ~IsLive(chan', pre.rec)
                  /\ Len(chan') = Len(pre.chan) + 1
                  /\ chan'[Len(chan')] = Message("view", Blocks(req[i]))
                  /\ lastMessage' = Len(chan')
                  /\ done'.ts = Len(chan')]_vars

\* C19: a refresh that finds no recorded message posts a new one and
\* records its handle.
C19_CreateWhenNoRecord ==
    [][\A i \in Handlers :
          LET pre == req[i].pre
          IN  (Refreshed(i) /\ pre.rec = Null) =>
                  /\ Len(chan') = Len(pre.chan) + 1
                  /\ chan'[Len(chan')] = Message("view", Blocks(req[i]))
                  /\ lastMessage' = Len(chan')
                  /\ done'.ts = Len(chan')]_vars

C21_StoreErrorStillPublishes ==
    [][\A i \in Handlers :
          (req[i].pc \in {"get", "del", "set_ts", "set_cached", "set_new"}
           /\ faults' # faults) =>
              IF req[i].pc = "set_new"
              THEN req'[i] = NoReq /\ done'.error = "none" /\ done'.ts = req[i].newTs
              ELSE req'[i].pc = "post"]_vars

\* C22: the menu's delete that succeeds leaves the channel without a record
\* and without a queue message of the bot, and a refresh without a handle
\* that then finds no record posts a new message and records it; a delete
\* that the platform refuses leaves the record as it was.
C22_ExplicitDelete ==
    [][\A i \in Handlers :
          /\ (req[i].pc = "more_del" /\ req'[i] = NoReq /\ done'.error = "none") =>
                (lastMessage' = Null /\ LiveViews' = {})
          /\ (req[i].pc = "more_delete" /\ req'[i] = NoReq) => lastMessage' = lastMessage
          /\ (Refreshed(i) /\ req[i].ts = Null /\ req[i].pre.rec = Null) =>
                /\ Len(chan') = Len(req[i].pre.chan) + 1
                /\ chan'[Len(chan')] = Message("view", Blocks(req[i]))
                /\ lastMessage' = Len(chan')]_vars

\* The positions of a listener inside postOrUpdateQueueView and queue_more.
ViewSteps ==
    {"list_prune", "list_zrange", "get", "history", "delete", "del", "update_ts", "set_ts",
     "update_cached", "set_cached", "post", "set_new", "more_delete", "more_del"}

\* C23: no step of a refresh or of the menu's delete, whether it succeeds,
\* falls back or fails, adds an entry to the queue, removes one that has not
\* expired, or changes the order of those that stay.
C23_ViewKeepsMembership ==
    [][\A i \in Handlers :
          (req[i].pc \in ViewSteps /\ (req'[i] # req[i] \/ faults' # faults)) =>
              /\ zset' \subseteq zset
              /\ \A e \in zset \ zset' :
                    QUEUE_MAX_AGE_MS # Null /\ e.score <= now - QUEUE_MAX_AGE_MS
              /\ ZRange(zset', 0, -1) =
                    SelectSeq(ZRange(zset, 0, -1), LAMBDA m : HasMember(zset', m))]_vars

\* A refresh has returned after its prune pass removed U1's expired entry and
\* kept the others.
C23_Witness ==
    /\ ReqQuiet
    /\ done.kind \in {"cmd_show", "queue_refresh"} /\ done.error = "none"
    /\ expired # {} /\ zset # {}
    /\ IsLive(chan, lastMessage)
    /\ chan[lastMessage].doc.users = ZRange(zset, 0, -1)

C25_BuriedExact ==
    [][\A i \in Handlers :
          (req[i].pc = "history" /\ req'[i] # req[i] /\ faults' = faults) =>
              (req'[i].pc = "delete"
               <=> VisibleAfter(chan, req[i].effectiveTs) > QUEUE_REPOST_THRESHOLD)]_vars

\* C26: with a negative threshold a refresh never asks for the channel's
\* history and never deletes a message, however many messages follow the
\* queue message; it posts a new message only when it knows no handle or the
\* update of every handle it knows has failed.
C26_DisabledNeverReposts ==
    [][QUEUE_REPOST_THRESHOLD = Disabled =>
          \A i \in Handlers :
              (req[i].kind \in {"cmd_show", "queue_refresh"}
               /\ (req'[i] # req[i] \/ faults' # faults)) =>
                  /\ req'[i].pc \notin {"history", "delete", "del"}
                  /\ Len(chan') >= Len(chan)
                  /\ \A k \in 1 .. Len(chan) : chan'[k].live = chan[k].live
                  /\ Len(chan') > Len(chan) =>
                        /\ req[i].ts = Null \/ req[i].ts \in req[i].stale
                        /\ req[i].cachedTs = Null \/ req[i].cachedTs \in req[i].stale]_vars

\* Reposting is disabled and a refresh has edited the recorded queue message
\* in place although as many messages as others may post follow it.
C26_Witness ==
    /\ QUEUE_REPOST_THRESHOLD = Disabled
    /\ ReqQuiet
    /\ done.kind \in {"cmd_show", "queue_refresh"} /\ done.error = "none"
    /\ done.ts = lastMessage
    /\ IsLive(chan, lastMessage)
    /\ VisibleAfter(chan, lastMessage) >= MaxChatter

\* C27: a refresh that was passed a handle checks the buriedness of that
\* handle, deletes that handle when it is buried, and tries to edit it first;
\* when the edit succeeds the record becomes that handle; the recorded handle
\* is tried only after the edit of the passed one has failed, and only when
\* it is another handle.
C27_ExplicitHandleFirst ==
    [][\A i \in Handlers :
          (req[i].ts # Null /\ req[i].pc \in ViewSteps
           /\ (req'[i] # req[i] \/ faults' # faults)) =>
              /\ (req[i].pc = "get" /\ req'[i] # NoReq) => req'[i].effectiveTs = req[i].ts
              /\ req'[i].pc = "delete" =>
                    VisibleAfter(chan, req[i].ts) > QUEUE_REPOST_THRESHOLD
              /\ (req[i].pc = "delete" /\ chan' # chan) => chan' = Tombstone(chan, req[i].ts)
              /\ (req[i].pc = "update_ts" /\ req'[i].stale = req[i].stale) =>
                    /\ chan' = [chan EXCEPT ![req[i].ts].doc = Blocks(req[i])]
                    /\ req'[i].pc = "set_ts"
              /\ (req[i].pc = "set_ts" /\ req'[i] = NoReq) =>
                    (lastMessage' = req[i].ts /\ done'.ts = req[i].ts)
              /\ req'[i].pc = "update_cached" =>
                    /\ req[i].pc \in {"update_ts", "set_ts"}
                    /\ req[i].ts \in req'[i].stale
                    /\ req[i].cachedTs # req[i].ts]_vars

\* The Refresh button of a queue message that is not the recorded one: its
\* edit has succeeded and the record is about to be set to it.
C27_Witness ==
    \E i \in Handlers :
        /\ req[i].pc = "set_ts"
        /\ req[i].cachedTs # Null /\ req[i].cachedTs # req[i].ts
        /\ lastMessage = req[i].cachedTs
        /\ IsLive(chan, req[i].cachedTs)

\* C28: the note of a queue message posted after a leave names as next the
\* member that is first in the list of that same message, nobody when the
\* list is empty, and a member it names has been notified by the wrapper.
C28_NoteNamesHead ==
    \A k \in 1 .. Len(chan) :
        (chan[k].type = "view" /\ chan[k].doc.note # <<>>) =>
            LET next == chan[k].doc.note[2]
                users == chan[k].doc.users
            IN  /\ next = IF Len(users) > 0 THEN users[1] ELSE Null
                /\ next # Null => CopiesIn(next, notified) > 0

\* C29: the member popNext returns is, when its zrem removes it, the entry
\* of the lowest rank, the one listQueue would return first.
C29_PopRemovesHead ==
    [][\A i \in Handlers :
          (h[i].pc = "popzrem" /\ h'[i] = Idle) =>
              (HasMember(zset, h[i].first) /\ h[i].first = HeadOf(zset))]_vars

\* C30: once every listener has returned, the record does not name a message
\* that the bot has deleted.
C30_RecordNotDeleted ==
    ReqQuiet => (lastMessage = Null \/ IsLive(chan, lastMessage))

\* C31: when the recorded queue message is buried and chat.delete fails with
\* an error other than message_not_found, the refresh keeps the record, posts
\* no message, and goes on to the chat.update of that same message.
C31_DeleteFailureEditsInPlace ==
    [][\A i \in Handlers :
          (/\ req[i].pc = "delete"
           /\ req[i].effectiveTs = req[i].cachedTs
           /\ req'[i] # req[i]
           /\ faults' # faults) =>
              /\ lastMessage' = lastMessage
              /\ chan' = chan
              /\ req'[i].cachedTs = req[i].cachedTs
              /\ \/ req'[i].pc = "update_ts" /\ req'[i].ts = req[i].effectiveTs
                 \/ req'[i].pc = "update_cached" /\ req'[i].cachedTs = req[i].effectiveTs]_vars

\* A refresh found the recorded message buried, failed to delete it, and is
\* about to edit it.
C31_Witness ==
    \E i \in Handlers :
        /\ req[i].pc \in {"update_ts", "update_cached"}
        /\ req[i].needsRepost
        /\ req[i].effectiveTs = req[i].cachedTs
        /\ lastMessage = req[i].cachedTs
        /\ IsLive(chan, lastMessage)
        /\ VisibleAfter(chan, lastMessage) > QUEUE_REPOST_THRESHOLD

====
